---- MODULE Spec2Model ----
(***************************************************************************)
(* A model of garlic's circular singly linked list                         *)
(* (src/src/circular_linked_list.rs): the ring of reference-counted nodes, *)
(* the list handle (head, tail), its teardown, and the CllIter cursor.     *)
(*                                                                         *)
(* Nodes are numbered in allocation order: node k is the node allocated by *)
(* the k-th push.  A pointer (Option<Rc<RefCell<Node>>>) is a node number, *)
(* or None.  Every Rc::clone and every drop of an Rc is counted in rc, and *)
(* a node whose count reaches zero is destroyed, which drops its next.     *)
(***************************************************************************)
EXTENDS Integers, Sequences, FiniteSets, TLC

\* Bounds of the model.
MaxNodes == 3          \* pushes (nodes allocated) in one run
MaxCalls == 7          \* calls to next in one run, over all iterators
MaxHandles == 1        \* yielded handles the caller holds at one time
MaxCallsTwo == 4       \* calls to next in one run of a caller with two iterators

Values == {"a", "b"}   \* element values; two values make duplicates happen
IterIds == {1, 2}      \* iterator slots of the caller
Main == {1}            \* the slot used when the caller has one iterator
None == 0              \* Option::None of a Pointer
Nodes == 1 .. MaxNodes
Pointer == 0 .. MaxNodes
Fuel == 2 * MaxNodes + 2   \* cut-off of a counting pass that fails to stop

VARIABLES
    value,      \* Node.value of the allocated nodes, in allocation order
    next,       \* Node.next of every node
    rc,         \* strong count of every node's Rc
    freed,      \* how many times each node has been destroyed
    nalloc,     \* nodes allocated so far
    head,       \* CircularLinkedList.head
    tail,       \* CircularLinkedList.tail
    alive,      \* the list handle exists (has not been dropped)
    iters,      \* the caller's iterators: live, cursor, tail, stop
    handles,    \* yielded Rc handles the caller still holds, per node
    depth,      \* deepest nesting of node destructions in the last operation
    panicked,   \* an unwrap of an absent tail has panicked
    built,      \* "new", or "collect" once from_iter built the list
    src,        \* the source sequence handed to from_iter
    pushed,     \* history: the values pushed, in push order
    hist,       \* history of each iterator
    ncalls      \* history: calls to next made so far

vars == << value, next, rc, freed, nalloc, head, tail, alive, iters, handles,
           depth, panicked, built, src, pushed, hist, ncalls >>

Max(a, b) == IF a >= b THEN a ELSE b
Min(a, b) == IF a <= b THEN a ELSE b

\* The heap and the list handle as one record, for the operations to thread.
World ==
    [ value |-> value, next |-> next, rc |-> rc, freed |-> freed,
      nalloc |-> nalloc, head |-> head, tail |-> tail, cur |-> 0, depth |-> 0 ]

SetWorld(w) ==
    /\ value' = w.value
    /\ next' = w.next
    /\ rc' = w.rc
    /\ freed' = w.freed
    /\ nalloc' = w.nalloc
    /\ head' = w.head
    /\ tail' = w.tail
    /\ depth' = w.depth

\* Rc::clone of a pointer.
IncRef(w, p) ==
    IF p = None THEN w ELSE [w EXCEPT !.rc[p] = @ + 1]

\* Drop of a pointer.  The last holder destroys the node, and the node's
\* destruction drops its next field while the node is still being destroyed.
RECURSIVE DecRef(_, _)
DecRef(w, p) ==
    IF p = None THEN w
    ELSE IF w.rc[p] > 1 THEN [w EXCEPT !.rc[p] = @ - 1]
    ELSE LET w1 == [w EXCEPT !.rc[p] = 0,
                             !.freed[p] = @ + 1,
                             !.next[p] = None,
                             !.cur = @ + 1,
                             !.depth = Max(@, w.cur + 1)]
             w2 == DecRef(w1, w.next[p])
         IN  [w2 EXCEPT !.cur = @ - 1]

\* CircularLinkedList::new
new ==
    [ head |-> None, tail |-> None ]

\* Rc::new(RefCell::new(Node { value, next: None })): the next node number.
Alloc(w, v) ==
    [w EXCEPT !.nalloc = @ + 1,
              !.value = Append(@, v),
              !.next[w.nalloc + 1] = None,
              !.rc[w.nalloc + 1] = 1]

\* push with the assignment to self.tail left out on a non-empty list.
push_keeps_tail(w, v) ==
    LET n == w.nalloc + 1 IN
    IF w.tail = None
    THEN LET w1 == Alloc(w, v)
             w2 == [IncRef(w1, n) EXCEPT !.next[n] = n]
             w3 == [DecRef(IncRef(w2, n), w2.head) EXCEPT !.head = n]
         IN  [DecRef(w3, w3.tail) EXCEPT !.tail = n]
    ELSE LET w1 == [Alloc(IncRef(w, w.head), v) EXCEPT !.next[n] = w.head]
             w2 == [IncRef(w1, n) EXCEPT !.next[w.tail] = n]
             w3 == DecRef(w2, w1.next[w.tail])
         IN  DecRef(w3, n)

\* push whose new node is made with next: None on a non-empty list.
push_open_ring(w, v) ==
    LET n == w.nalloc + 1 IN
    IF w.tail = None
    THEN LET w1 == Alloc(w, v)
             w2 == [IncRef(w1, n) EXCEPT !.next[n] = n]
             w3 == [DecRef(IncRef(w2, n), w2.head) EXCEPT !.head = n]
         IN  [DecRef(w3, w3.tail) EXCEPT !.tail = n]
    ELSE LET w1 == Alloc(w, v)
             w2 == [IncRef(w1, n) EXCEPT !.next[w.tail] = n]
             w3 == DecRef(w2, w1.next[w.tail])
             w4 == [IncRef(w3, n) EXCEPT !.tail = n]
             w5 == DecRef(w4, w.tail)
         IN  DecRef(w5, n)

\* push that, on an empty list, sets self.head and lets the local handle go
\* out of scope without storing it in self.tail.
push_head_only(w, v) ==
    LET n == w.nalloc + 1 IN
    IF w.tail = None
    THEN LET w1 == Alloc(w, v)
             w2 == [IncRef(w1, n) EXCEPT !.next[n] = n]
             w3 == [DecRef(IncRef(w2, n), w2.head) EXCEPT !.head = n]
         IN  DecRef(w3, n)
    ELSE LET w1 == [Alloc(IncRef(w, w.head), v) EXCEPT !.next[n] = w.head]
             w2 == [IncRef(w1, n) EXCEPT !.next[w.tail] = n]
             w3 == DecRef(w2, w1.next[w.tail])
             w4 == [IncRef(w3, n) EXCEPT !.tail = n]
             w5 == DecRef(w4, w.tail)
         IN  DecRef(w5, n)

\* push that also moves self.head to the new node on a non-empty list.
push_moves_head(w, v) ==
    LET n == w.nalloc + 1 IN
    IF w.tail = None
    THEN LET w1 == Alloc(w, v)
             w2 == [IncRef(w1, n) EXCEPT !.next[n] = n]
             w3 == [DecRef(IncRef(w2, n), w2.head) EXCEPT !.head = n]
         IN  [DecRef(w3, w3.tail) EXCEPT !.tail = n]
    ELSE LET w1 == [Alloc(IncRef(w, w.head), v) EXCEPT !.next[n] = w.head]
             w2 == [IncRef(w1, n) EXCEPT !.next[w.tail] = n]
             w3 == DecRef(w2, w1.next[w.tail])
             w4 == [IncRef(w3, n) EXCEPT !.tail = n]
             w5 == DecRef(w4, w.tail)
             w6 == [IncRef(w5, n) EXCEPT !.head = n]
             w7 == DecRef(w6, w.head)
         IN  DecRef(w7, n)

\* CircularLinkedList::push
push(w, v) ==
    LET n == w.nalloc + 1 IN
    IF w.tail = None
    THEN LET w1 == Alloc(w, v)
             \* head.borrow_mut().next = Some(head.clone())
             w2 == [IncRef(w1, n) EXCEPT !.next[n] = n]
             \* self.head = Some(head.clone())
             w3 == [DecRef(IncRef(w2, n), w2.head) EXCEPT !.head = n]
             \* self.tail = Some(head)
             w4 == [DecRef(w3, w3.tail) EXCEPT !.tail = n]
         IN  w4
    ELSE LET \* Node { value, next: self.head.clone() }
             w1 == [Alloc(IncRef(w, w.head), v) EXCEPT !.next[n] = w.head]
             \* rcrfn.borrow_mut().next = next_ptr.clone()
             w2 == [IncRef(w1, n) EXCEPT !.next[w.tail] = n]
             w3 == DecRef(w2, w1.next[w.tail])
             \* self.tail = next_ptr.clone()
             w4 == [IncRef(w3, n) EXCEPT !.tail = n]
             w5 == DecRef(w4, w.tail)
             \* next_ptr goes out of scope
         IN  DecRef(w5, n)

\* A teardown that leaves the tail's next in place.
drop_without_sever(w) ==
    LET w2 == [DecRef(w, w.head) EXCEPT !.head = None]
    IN  [DecRef(w2, w2.tail) EXCEPT !.tail = None]

\* Drop for CircularLinkedList, then the drop of its fields in declaration
\* order.
drop(w) ==
    LET w1 == IF w.tail # None
              THEN DecRef([w EXCEPT !.next[w.tail] = None], w.next[w.tail])
              ELSE w
        w2 == [DecRef(w1, w1.head) EXCEPT !.head = None]
        w3 == [DecRef(w2, w2.tail) EXCEPT !.tail = None]
    IN  w3

NoIter == [ live |-> FALSE, cursor |-> None, tail |-> None, stop |-> FALSE ]

\* iter that leaves the iterator's tail absent.
iter_without_tail(w) ==
    [ w |-> IncRef(w, w.head),
      it |-> [ live |-> TRUE, cursor |-> w.head, tail |-> None, stop |-> FALSE ] ]

\* iter with the cursor started at the tail.
iter_from_tail(w) ==
    [ w |-> IncRef(IncRef(w, w.tail), w.tail),
      it |-> [ live |-> TRUE, cursor |-> w.tail, tail |-> w.tail, stop |-> FALSE ] ]

\* CircularLinkedList::iter
iter(w) ==
    [ w |-> IncRef(IncRef(w, w.head), w.tail),
      it |-> [ live |-> TRUE, cursor |-> w.head, tail |-> w.tail, stop |-> FALSE ] ]

\* once that hands the iterator back without setting the flag.
once_keeps_flag(it) ==
    it

\* CllIter::once
once(it) ==
    [it EXCEPT !.stop = TRUE]

\* CircularLinkedList::iter_once
iter_once(w) ==
    LET r == iter(w) IN [ w |-> r.w, it |-> once(r.it) ]

\* The tail test done on the values of the two nodes.
ptr_eq_by_value(w, r, t) ==
    w.value[r] = w.value[t]

\* The tail test done against the list's tail of the moment instead of the
\* tail the iterator captured.
ptr_eq_list_tail(w, r, t) ==
    r = w.tail

\* Rc::ptr_eq(&r, self.tail.as_ref().unwrap())
ptr_eq(w, r, t) ==
    r = t

\* next that, finding the cursor absent, rewinds it to the node after the
\* captured tail for the following call.
iter_next_restarts(w, it) ==
    LET r == it.cursor
        taken == [it EXCEPT !.cursor = None]
    IN  IF r = None
        THEN IF it.tail = None
             THEN [ w |-> w, it |-> taken, ret |-> None, panic |-> FALSE ]
             ELSE [ w |-> IncRef(w, w.next[it.tail]),
                    it |-> [taken EXCEPT !.cursor = w.next[it.tail]],
                    ret |-> None, panic |-> FALSE ]
        ELSE IF it.stop /\ it.tail = None
        THEN [ w |-> DecRef(w, r), it |-> taken, ret |-> None, panic |-> TRUE ]
        ELSE IF ~it.stop \/ r # it.tail
        THEN [ w |-> IncRef(w, w.next[r]),
               it |-> [taken EXCEPT !.cursor = w.next[r]],
               ret |-> r, panic |-> FALSE ]
        ELSE [ w |-> w, it |-> taken, ret |-> r, panic |-> FALSE ]

\* next that unwraps the captured tail before it looks at the cursor.
iter_next_unwraps_first(w, it) ==
    LET r == it.cursor
        taken == [it EXCEPT !.cursor = None]
    IN  IF it.stop /\ it.tail = None
        THEN [ w |-> DecRef(w, r), it |-> taken, ret |-> None, panic |-> TRUE ]
        ELSE IF r = None
        THEN [ w |-> w, it |-> taken, ret |-> None, panic |-> FALSE ]
        ELSE IF ~it.stop \/ r # it.tail
        THEN [ w |-> IncRef(w, w.next[r]),
               it |-> [taken EXCEPT !.cursor = w.next[r]],
               ret |-> r, panic |-> FALSE ]
        ELSE [ w |-> w, it |-> taken, ret |-> r, panic |-> FALSE ]

\* next that moves the link out of the node (next.take()) instead of cloning
\* it.
iter_next_takes_link(w, it) ==
    LET r == it.cursor
        taken == [it EXCEPT !.cursor = None]
    IN  IF r = None
        THEN [ w |-> w, it |-> taken, ret |-> None, panic |-> FALSE ]
        ELSE IF it.stop /\ it.tail = None
        THEN [ w |-> DecRef(w, r), it |-> taken, ret |-> None, panic |-> TRUE ]
        ELSE IF ~it.stop \/ r # it.tail
        THEN [ w |-> [w EXCEPT !.next[r] = None],
               it |-> [taken EXCEPT !.cursor = w.next[r]],
               ret |-> r, panic |-> FALSE ]
        ELSE [ w |-> w, it |-> taken, ret |-> r, panic |-> FALSE ]

\* next that leaves the cursor on the node it yields: it steps to the successor
\* of the cursor at the time of the call and yields that node.
iter_next_steps_late(w, it) ==
    LET r == it.cursor
        taken == [it EXCEPT !.cursor = None]
    IN  IF r = None
        THEN [ w |-> w, it |-> taken, ret |-> None, panic |-> FALSE ]
        ELSE IF it.stop /\ it.tail = None
        THEN [ w |-> DecRef(w, r), it |-> taken, ret |-> None, panic |-> TRUE ]
        ELSE IF ~it.stop \/ r # it.tail
        THEN [ w |-> DecRef(IncRef(IncRef(w, w.next[r]), w.next[r]), r),
               it |-> [taken EXCEPT !.cursor = w.next[r]],
               ret |-> w.next[r], panic |-> FALSE ]
        ELSE [ w |-> w, it |-> taken, ret |-> r, panic |-> FALSE ]

\* CllIter::next.  ret is the node yielded (None: no value); the reference the
\* cursor held moves into ret.  An unwrap of an absent tail panics, and the
\* unwinding drops r.
iter_next(w, it) ==
    LET r == it.cursor
        taken == [it EXCEPT !.cursor = None]
    IN  IF r = None
        THEN [ w |-> w, it |-> taken, ret |-> None, panic |-> FALSE ]
        ELSE IF it.stop /\ it.tail = None
        THEN [ w |-> DecRef(w, r), it |-> taken, ret |-> None, panic |-> TRUE ]
        ELSE IF ~it.stop \/ ~ptr_eq(w, r, it.tail)
        THEN [ w |-> IncRef(w, w.next[r]),
               it |-> [taken EXCEPT !.cursor = w.next[r]],
               ret |-> r, panic |-> FALSE ]
        ELSE [ w |-> w, it |-> taken, ret |-> r, panic |-> FALSE ]

\* A clone that starts again at the list's head instead of copying the
\* cursor.
clone_rewinds(w, it) ==
    [ w |-> IncRef(IncRef(w, w.head), it.tail),
      it |-> [ live |-> TRUE, cursor |-> w.head, tail |-> it.tail, stop |-> it.stop ] ]

\* #[derive(Clone)] on CllIter: each field is cloned.
clone(w, it) ==
    [ w |-> IncRef(IncRef(w, it.cursor), it.tail),
      it |-> [ live |-> TRUE, cursor |-> it.cursor, tail |-> it.tail, stop |-> it.stop ] ]

\* Drop of a CllIter: its fields, in declaration order.
drop_iter(w, it) ==
    DecRef(DecRef(w, it.cursor), it.tail)

\* Iterator::count on a CllIter: every yielded handle is dropped at once, the
\* iterator is dropped at the end.  at |-> the nodes in the order yielded.
RECURSIVE count(_, _, _)
count(w, it, fuel) ==
    LET st == iter_next(w, it) IN
    IF st.ret = None \/ fuel = 0
    THEN [ w |-> drop_iter(st.w, st.it), n |-> 0, at |-> << >> ]
    ELSE LET rest == count(DecRef(st.w, st.ret), st.it, fuel - 1)
         IN  [ rest EXCEPT !.n = @ + 1, !.at = << st.ret >> \o @ ]

\* CircularLinkedList::len
len(w) ==
    LET r == iter_once(w) IN count(r.w, r.it, Fuel)

\* CircularLinkedList::is_empty
is_empty(w) ==
    w.head = None

\* Debug for CircularLinkedList: the values of one pass, in order.
fmt(w) ==
    LET c == len(w) IN [ k \in 1 .. Len(c.at) |-> w.value[c.at[k]] ]

\* from_iter folding from the right: the last element is pushed first.
RECURSIVE from_iter_reversed(_, _)
from_iter_reversed(w, S) ==
    IF S = << >> THEN w ELSE push(from_iter_reversed(w, Tail(S)), Head(S))

\* FromIterator for CircularLinkedList: fold of push over the source.
RECURSIVE from_iter(_, _)
from_iter(w, S) ==
    IF S = << >> THEN w ELSE from_iter(push(w, Head(S)), Tail(S))

\* History of one iterator.
NoHist ==
    [ out |-> << >>,        \* nodes yielded, in order
      calls |-> 0,          \* calls to next
      ended |-> FALSE,      \* some call to next returned no value
      clean |-> FALSE,      \* no push and no teardown since iter()/iter_once()
      srcEmpty |-> FALSE,   \* the list was empty at iter()
      onceAt |-> -1,        \* calls made when once() was applied (-1: never)
      used |-> FALSE,       \* the slot has held an iterator
      len0 |-> 0,           \* pushes made before iter()/iter_once()
      peek |-> None,        \* Node.next of the last node yielded, when yielded
      twin |-> None ]       \* the clone (or original) still in step with it

Init ==
    /\ value = << >>
    /\ next = [n \in Nodes |-> None]
    /\ rc = [n \in Nodes |-> 0]
    /\ freed = [n \in Nodes |-> 0]
    /\ nalloc = 0
    /\ head = new.head
    /\ tail = new.tail
    /\ alive = TRUE
    /\ iters = [i \in IterIds |-> NoIter]
    /\ handles = [n \in Nodes |-> 0]
    /\ depth = 0
    /\ panicked = FALSE
    /\ built = "new"
    /\ src = << >>
    /\ pushed = << >>
    /\ hist = [i \in IterIds |-> NoHist]
    /\ ncalls = 0

RECURSIVE Sum(_, _)
Sum(f, n) == IF n = 0 THEN 0 ELSE f[n] + Sum(f, n - 1)

\* Yielded handles the caller holds.
Held == Sum(handles, MaxNodes)

Dirty(h) == [i \in IterIds |-> [h[i] EXCEPT !.clean = FALSE, !.twin = None]]

Push(v) ==
    /\ alive
    /\ nalloc < MaxNodes
    /\ SetWorld(push(World, v))
    /\ pushed' = Append(pushed, v)
    /\ hist' = Dirty(hist)
    /\ UNCHANGED << alive, iters, handles, panicked, built, src, ncalls >>

Fresh ==
    /\ alive
    /\ nalloc = 0
    /\ built = "new"
    /\ \A i \in IterIds : ~iters[i].live

FromIter(S) ==
    /\ Fresh
    /\ SetWorld(from_iter(World, S))
    /\ built' = "collect"
    /\ src' = S
    /\ pushed' = S
    /\ UNCHANGED << alive, iters, handles, panicked, hist, ncalls >>

LenCall ==
    /\ alive
    /\ SetWorld(len(World).w)
    /\ UNCHANGED << alive, iters, handles, panicked, built, src, pushed, hist, ncalls >>

DropList ==
    /\ alive
    /\ alive' = FALSE
    /\ SetWorld(drop(World))
    /\ hist' = Dirty(hist)
    /\ UNCHANGED << iters, handles, panicked, built, src, pushed, ncalls >>

Iter(i) ==
    /\ alive
    /\ ~iters[i].live /\ ~hist[i].used
    /\ LET r == iter(World) IN
        /\ SetWorld(r.w)
        /\ iters' = [iters EXCEPT ![i] = r.it]
        /\ hist' = [hist EXCEPT ![i] = [NoHist EXCEPT !.clean = TRUE, !.used = TRUE,
                                                      !.srcEmpty = (head = None),
                                                      !.len0 = Len(pushed)]]
    /\ UNCHANGED << alive, handles, panicked, built, src, pushed, ncalls >>

IterOnce(i) ==
    /\ alive
    /\ ~iters[i].live /\ ~hist[i].used
    /\ LET r == iter_once(World) IN
        /\ SetWorld(r.w)
        /\ iters' = [iters EXCEPT ![i] = r.it]
        /\ hist' = [hist EXCEPT ![i] = [NoHist EXCEPT !.clean = TRUE, !.used = TRUE,
                                                      !.srcEmpty = (head = None),
                                                      !.len0 = Len(pushed),
                                                      !.onceAt = 0]]
    /\ UNCHANGED << alive, handles, panicked, built, src, pushed, ncalls >>

Once(i) ==
    /\ iters[i].live
    /\ ~iters[i].stop
    /\ iters' = [iters EXCEPT ![i] = once(@)]
    /\ hist' = [j \in IterIds |->
                  IF j = i THEN [hist[j] EXCEPT !.onceAt = hist[i].calls, !.twin = None]
                  ELSE [hist[j] EXCEPT !.twin = None]]
    /\ UNCHANGED << value, next, rc, freed, nalloc, head, tail, alive, handles,
                    depth, panicked, built, src, pushed, ncalls >>

\* #[derive(Clone)] on CllIter: clone of iterator i into the free slot j.
Clone(i, j) ==
    /\ i # j
    /\ iters[i].live
    /\ ~iters[j].live /\ ~hist[j].used
    /\ LET r == clone(World, iters[i]) IN
        /\ SetWorld(r.w)
        /\ iters' = [iters EXCEPT ![j] = r.it]
    /\ hist' = [hist EXCEPT ![i].twin = j, ![j] = [hist[i] EXCEPT !.twin = i]]
    /\ UNCHANGED << alive, handles, panicked, built, src, pushed, ncalls >>

\* One call to next on iterator i; the caller keeps the yielded handle or
\* drops it at once.
Next_(i, keep) ==
    /\ iters[i].live
    /\ ncalls < MaxCalls
    /\ ncalls' = ncalls + 1
    /\ LET st == iter_next(World, iters[i])
           held == keep /\ st.ret # None /\ Held < MaxHandles
       IN
        /\ SetWorld(IF st.ret # None /\ ~held THEN DecRef(st.w, st.ret) ELSE st.w)
        /\ handles' = IF held THEN [handles EXCEPT ![st.ret] = @ + 1] ELSE handles
        /\ iters' = [iters EXCEPT ![i] = st.it]
        /\ panicked' = (panicked \/ st.panic)
        /\ hist' = [hist EXCEPT ![i].calls = @ + 1,
                                ![i].out = IF st.ret # None THEN Append(@, st.ret) ELSE @,
                                ![i].ended = (@ \/ st.ret = None),
                                ![i].peek = IF st.ret # None THEN next[st.ret] ELSE @]
    /\ UNCHANGED << alive, built, src, pushed >>

DropIter(i) ==
    /\ iters[i].live
    /\ SetWorld(drop_iter(World, iters[i]))
    /\ iters' = [iters EXCEPT ![i] = NoIter]
    /\ hist' = [j \in IterIds |->
                  IF j = i THEN [NoHist EXCEPT !.used = TRUE]
                  ELSE [hist[j] EXCEPT !.twin = None]]
    /\ UNCHANGED << alive, handles, panicked, built, src, pushed, ncalls >>

DropHandle(n) ==
    /\ handles[n] > 0
    /\ handles' = [handles EXCEPT ![n] = @ - 1]
    /\ SetWorld(DecRef(World, n))
    /\ UNCHANGED << alive, iters, panicked, built, src, pushed, hist, ncalls >>

\* The operations on the list and on the iterators of the slots I, with at
\* most B calls to next.
Ops(I, B) ==
    \/ \E v \in Values : Push(v)
    \/ LenCall
    \/ DropList
    \/ \E i \in I : Iter(i)
    \/ \E i \in I : IterOnce(i)
    \/ \E i \in I : Once(i)
    \/ \E i \in I, keep \in BOOLEAN : ncalls < B /\ Next_(i, keep)
    \/ \E i \in I : DropIter(i)
    \/ \E n \in Nodes : DropHandle(n)

\* A caller with one iterator.
Next ==
    Ops(Main, MaxCalls)

Spec == Init /\ [][Next]_vars

\* The same program with the list built by from_iter instead of by pushes.
Sources == UNION { [1 .. k -> Values] : k \in 0 .. MaxNodes }

NextCollect ==
    \/ \E S \in Sources : FromIter(S)
    \/ built = "collect" /\ Next

SpecCollect == Init /\ [][NextCollect]_vars

\* A caller with two iterators, the second possibly a clone of the first,
\* who drops every yielded handle at once.
NextTwo ==
    \/ \E v \in Values : Push(v)
    \/ LenCall
    \/ DropList
    \/ \E i \in IterIds : Iter(i)
    \/ \E i \in IterIds : IterOnce(i)
    \/ \E i \in IterIds : Once(i)
    \/ \E i, j \in IterIds : Clone(i, j)
    \/ \E i \in IterIds : ncalls < MaxCallsTwo /\ Next_(i, FALSE)
    \/ \E i \in IterIds : DropIter(i)

SpecTwo == Init /\ [][NextTwo]_vars

(***************************************************************************)
(* Properties.                                                             *)
(***************************************************************************)

Live(i) == iters[i].live

\* The k-th successor of pointer p along next.
RECURSIVE Walk(_, _)
Walk(p, k) ==
    IF k = 0 \/ p = None THEN p ELSE Walk(next[p], k - 1)

\* Every count is the number of holders of the node: the list's fields, the
\* next of the nodes not yet destroyed, the iterators' fields, the handles.
B(x) == IF x THEN 1 ELSE 0

Holders(n) ==
    B(head = n) + B(tail = n) + handles[n]
    + Cardinality({ m \in 1 .. nalloc : next[m] = n })
    + Cardinality({ i \in IterIds : Live(i) /\ iters[i].cursor = n })
    + Cardinality({ i \in IterIds : Live(i) /\ iters[i].tail = n })

RcCountsHolders ==
    \A n \in Nodes : rc[n] = Holders(n) /\ freed[n] = B(n <= nalloc /\ rc[n] = 0)

\* C1: an iterator from iter_once(), advanced with no push and no teardown
\* in between, yields the n pushed nodes in push order, each once, and its
\* (n+1)-th call returns no value; equal values change nothing.
C1_OncePassYieldsPushOrder ==
    \A i \in IterIds :
        (Live(i) /\ hist[i].clean /\ hist[i].onceAt = 0) =>
            LET h == hist[i]
                n == Len(pushed)
            IN  /\ h.out = [k \in 1 .. Min(h.calls, n) |-> k]
                /\ \A k \in 1 .. Len(h.out) : value[h.out[k]] = pushed[k]
                /\ h.ended <=> (h.calls > n)

\* A finished pass over three nodes whose first and last values are equal.
C1_Witness ==
    \E i \in IterIds :
        /\ Live(i) /\ hist[i].clean /\ hist[i].onceAt = 0
        /\ Len(pushed) = 3 /\ pushed[1] = pushed[3]
        /\ hist[i].calls = 4 /\ hist[i].ended

\* C2: after n pushes on a new list, len() returns n and is_empty() is true
\* exactly when n = 0.
C2_LenCountsPushes ==
    alive =>
        /\ len(World).n = Len(pushed)
        /\ is_empty(World) <=> (Len(pushed) = 0)

C2_Witness ==
    alive /\ Len(pushed) = 3 /\ len(World).n = 3 /\ ~is_empty(World)

\* C3: on a list of n >= 1 nodes that is neither pushed to nor torn down
\* meanwhile, the i-th node an iterator from iter() yields is node
\* (i-1) mod n + 1, holding the value of that push.
C3_IterCycles ==
    \A i \in IterIds :
        (Live(i) /\ hist[i].clean /\ ~iters[i].stop /\ Len(pushed) >= 1) =>
            LET h == hist[i]
                n == Len(pushed)
            IN  /\ Len(h.out) = h.calls
                /\ \A k \in 1 .. Len(h.out) :
                      /\ h.out[k] = ((k - 1) % n) + 1
                      /\ value[h.out[k]] = pushed[((k - 1) % n) + 1]

\* Two full cycles and one more element of a list of three.
C3_Witness ==
    \E i \in IterIds :
        /\ Live(i) /\ hist[i].clean /\ ~iters[i].stop
        /\ Len(pushed) = 3
        /\ hist[i].out = << 1, 2, 3, 1, 2, 3, 1 >>

\* C4: an iterator from iter() on a non-empty list that was never converted
\* with once() always has a cursor and never returns no value, whatever
\* pushes and teardown of the list happen meanwhile.
C4_IterNeverExhausted ==
    \A i \in IterIds :
        (Live(i) /\ ~iters[i].stop /\ ~hist[i].srcEmpty) =>
            /\ iters[i].cursor # None
            /\ ~hist[i].ended

\* Nobody holds a node from outside the ring any more.
AllReleased ==
    /\ ~alive
    /\ \A i \in IterIds : ~Live(i)
    /\ Held = 0

\* C5: once the list, every iterator and every yielded handle are dropped,
\* every node ever allocated has count zero and was destroyed exactly once.
C5_NoLeakNoDoubleFree ==
    AllReleased =>
        \A n \in 1 .. nalloc : rc[n] = 0 /\ freed[n] = 1

\* The single-node ring, torn down while an iterator and a handle held it.
C5_Witness ==
    /\ AllReleased
    /\ nalloc = 1 /\ freed[1] = 1
    /\ \E i \in IterIds : hist[i].used
    /\ ncalls >= 1

\* C6: the drop of a list that alone holds its nodes destroys them one by
\* one: no node's destruction starts inside another node's destruction.
C6_TeardownDepthConstant ==
    (~alive /\ ncalls = 0 /\ \A i \in IterIds : ~hist[i].used) =>
        depth <= 1

\* C7: from_iter(S) gives a list whose pass is S, whose len() is |S|, and
\* which is empty for the empty S.
C7_FromIterIsPushes ==
    (built = "collect" /\ alive /\ pushed = src) =>
        /\ fmt(World) = src
        /\ len(World).n = Len(src)
        /\ (src = << >>) => (head = None /\ tail = None)

C7_Witness ==
    /\ built = "collect" /\ alive /\ pushed = src
    /\ Len(src) = 3 /\ src[1] = src[3] /\ src[1] # src[2]

\* C8: an iterator whose next has returned no value returns no value on
\* every later call, and an iterator made on an empty list never yields,
\* whatever is pushed afterwards.
C8_ExhaustedAbsorbing ==
    [][\A i \in IterIds :
          /\ (Live(i) /\ hist[i].ended /\ Live(i)') =>
                (hist[i].out = hist'[i].out /\ hist'[i].ended)
          /\ hist'[i].srcEmpty => hist'[i].out = << >>]_vars

\* An iterator made on the empty list, called again after a push.
C8_Witness ==
    \E i \in IterIds :
        /\ Live(i) /\ hist[i].srcEmpty /\ hist[i].ended
        /\ hist[i].calls >= 3 /\ hist[i].out = << >>
        /\ Len(pushed) >= 1 /\ alive

\* C9: on a list just returned by new(), len() is 0, is_empty() is true and
\* the first next of an iterator of either kind returns no value, without
\* a panic on the absent tail.
C9_NewListIsEmpty ==
    (alive /\ Len(pushed) = 0) =>
        /\ len(World).n = 0
        /\ is_empty(World)
        /\ ~panicked
        /\ \A i \in IterIds :
              (Live(i) /\ hist[i].calls >= 1) =>
                  (hist[i].out = << >> /\ hist[i].ended)

C9_Witness ==
    /\ alive /\ Len(pushed) = 0 /\ built = "new"
    /\ \E i \in IterIds :
          Live(i) /\ iters[i].stop /\ hist[i].onceAt = 0 /\ hist[i].calls = 1

\* C10: in a live, non-empty list every node of the ring has a next, the
\* tail's next is the head, the tail is reached from the head in exactly
\* len - 1 steps over len distinct nodes, and len steps from any node of
\* the ring lead back to it.
C10_RingClosed ==
    (alive /\ head # None) =>
        LET n == Len(pushed)
            ring == { Walk(head, k) : k \in 0 .. n - 1 }
        IN  /\ tail # None
            /\ next[tail] = head
            /\ Walk(head, n - 1) = tail
            /\ \A k \in 0 .. n - 2 : Walk(head, k) # tail
            /\ Cardinality(ring) = n
            /\ \A m \in ring : m # None /\ next[m] # None /\ Walk(m, n) = m

C10_Witness ==
    alive /\ Len(pushed) = 3 /\ head = 1 /\ tail = 3 /\ next[3] = 1

\* C11: in every state of a list, head and tail are both absent or both
\* present, whatever pushes, iterators, len() calls and iterator steps
\* came before.
C11_HeadTailTogether ==
    alive => ((head = None) <=> (tail = None))

\* A non-empty list with an iterator that has stepped.
C11_Witness ==
    /\ alive /\ head # None /\ tail # None /\ head # tail
    /\ \E i \in IterIds : Live(i) /\ hist[i].calls >= 1 /\ ~hist[i].clean

\* C12: push on a non-empty list keeps head, every existing value and every
\* existing next but the old tail's; the old tail's next becomes the new
\* node, the new node's next is head, and tail is the new node.  push on an
\* empty list makes one node whose next is itself, head and tail.
C12_PushFrame ==
    [][(alive /\ Len(pushed') = Len(pushed) + 1) =>
          LET n == nalloc' IN
          /\ n = nalloc + 1
          /\ tail' = n
          /\ value'[n] = pushed'[Len(pushed')]
          /\ \A m \in 1 .. nalloc : value'[m] = value[m]
          /\ IF head = None
             THEN head' = n /\ next'[n] = n
             ELSE /\ head' = head
                  /\ next'[tail] = n
                  /\ next'[n] = head
                  /\ \A m \in 1 .. nalloc : m # tail => next'[m] = next[m]]_vars

\* The state after a push on a list of two nodes.
C12_Witness ==
    /\ alive /\ Len(pushed) = 3
    /\ head = 1 /\ tail = 3 /\ next = << 2, 3, 1 >>

\* C13: iter, iter_once, once, clone, next in either mode and len() leave
\* head, tail, every value and the next of every node that still exists
\* unchanged: a step that is neither a push nor the teardown changes no
\* link.
C13_TraversalReadOnly ==
    [][(pushed' = pushed /\ alive' = alive) =>
          /\ head' = head
          /\ tail' = tail
          /\ value' = value
          /\ \A m \in 1 .. nalloc : rc'[m] > 0 => next'[m] = next[m]]_vars

\* An iterator and its clone, one converted with once(), after steps over an
\* intact ring of three.
C13_Witness ==
    /\ alive /\ Len(pushed) = 3 /\ next = << 2, 3, 1 >>
    /\ \E i, j \in IterIds :
          /\ i # j /\ Live(i) /\ Live(j)
          /\ iters[i].stop /\ ~iters[j].stop
          /\ hist[i].calls >= 1 /\ hist[j].calls >= 2
          /\ hist[i].onceAt >= 1

\* No node reaches itself by following next.
Acyclic ==
    \A m \in 1 .. nalloc : \A k \in 1 .. nalloc : Walk(m, k) # m

\* C14: the drop of a non-empty list leaves its tail node without a next,
\* and in every state after the list is gone no node reaches itself along
\* next, also while iterators and handles still hold nodes.
C14_TeardownSevers ==
    [][~alive' =>
          /\ Acyclic'
          /\ (alive /\ tail # None) => next'[tail] = None]_vars

\* The list is gone and an iterator keeps the whole chain of three alive.
C14_Witness ==
    /\ ~alive /\ nalloc = 3
    /\ \A m \in 1 .. 3 : rc[m] > 0
    /\ next = << 2, 3, None >>
    /\ \E i \in IterIds : Live(i) /\ iters[i].cursor = 1 /\ iters[i].tail = 3

\* C15: an iterator from iter_once() made when the list held n >= 1 nodes
\* yields exactly those n nodes, in ring order from head, and then stops,
\* also when pushes come between its steps; a node pushed after its making
\* is never yielded.
C15_OnceBoundToCapturedTail ==
    \A i \in IterIds :
        (Live(i) /\ hist[i].onceAt = 0 /\ hist[i].len0 >= 1) =>
            LET h == hist[i] IN
            /\ h.out = [k \in 1 .. Min(h.calls, h.len0) |-> k]
            /\ h.ended <=> (h.calls > h.len0)

\* A pass made over two nodes, finished after a third node was pushed.
C15_Witness ==
    \E i \in IterIds :
        /\ Live(i) /\ hist[i].onceAt = 0 /\ hist[i].len0 = 2
        /\ alive /\ Len(pushed) = 3 /\ tail = 3 /\ iters[i].tail = 2
        /\ hist[i].out = << 1, 2 >> /\ hist[i].ended

\* The calls after which an iterator of an undisturbed list of n nodes,
\* converted with once() after m calls, has passed the tail.
LastYield(m, n) == m + n - (m % n)

\* C16: once() sets the stop flag and nothing else, iter_once() makes the
\* iterator iter().once() makes, and on an undisturbed list of n >= 1 nodes
\* an iterator converted after yielding m nodes yields the n - (m mod n)
\* nodes from ring position m mod n up to the tail and is then exhausted.
C16_OnceFromAnyPosition ==
    [][\A i \in IterIds :
          /\ (Live(i) /\ ~iters[i].stop /\ iters'[i].stop) =>
                /\ iters'[i] = [iters[i] EXCEPT !.stop = TRUE]
                /\ << value, next, rc, freed, head, tail >>' =
                   << value, next, rc, freed, head, tail >>
          /\ (~Live(i) /\ Live(i)' /\ iters'[i].stop) =>
                /\ iters'[i].cursor = head /\ iters'[i].tail = tail
                /\ hist'[i].onceAt = 0
          /\ (Live(i)' /\ hist'[i].clean /\ hist'[i].onceAt >= 0
                /\ Len(pushed') >= 1) =>
                LET h == hist'[i]
                    n == Len(pushed')
                    last == LastYield(h.onceAt, n)
                IN  /\ Len(h.out) = Min(h.calls, last)
                    /\ \A k \in 1 .. Len(h.out) : h.out[k] = ((k - 1) % n) + 1
                    /\ h.ended <=> (h.calls > last)]_vars

\* Converted after four nodes of a ring of three: two more nodes, then the
\* end.
C16_Witness ==
    \E i \in IterIds :
        /\ Live(i) /\ hist[i].clean /\ Len(pushed) = 3
        /\ hist[i].onceAt = 4 /\ hist[i].calls = 7 /\ hist[i].ended
        /\ hist[i].out = << 1, 2, 3, 1, 2, 3 >>

\* C17: a step, a once() or the drop of one iterator leaves the cursor, the
\* tail and the flag of the other iterator as they were; a clone starts with
\* the original's cursor, tail and flag and allocates no node; and while no
\* push, teardown or once() comes between, the clone and the original have
\* yielded the same nodes whenever they have made the same number of calls.
C17_IteratorsIndependent ==
    [][\A i, j \in IterIds :
          (i # j) =>
            /\ (Live(j) /\ (iters'[i] # iters[i] \/ hist'[i].calls # hist[i].calls)) =>
                  iters'[j] = iters[j]
            /\ (~Live(j) /\ hist'[j].twin = i) =>
                  /\ iters'[j] = iters[i]
                  /\ iters'[i] = iters[i]
                  /\ hist'[j].out = hist[i].out
                  /\ << nalloc, value, next, head, tail >>' =
                     << nalloc, value, next, head, tail >>
            /\ (Live(i)' /\ Live(j)' /\ hist'[j].twin = i
                  /\ hist'[i].calls = hist'[j].calls) =>
                  /\ hist'[i].out = hist'[j].out
                  /\ iters'[i] = iters'[j]]_vars

\* An iterator cloned after one step; the original and the clone have each
\* made one more step since.
C17_Witness ==
    \E i, j \in IterIds :
        /\ i # j /\ Live(i) /\ Live(j) /\ hist[j].twin = i
        /\ hist[i].calls = 2 /\ hist[j].calls = 2 /\ ncalls = 3
        /\ hist[i].out = << 1, 2 >> /\ hist[j].out = << 1, 2 >>
        /\ iters[i].cursor = 3

\* C18: whatever pushes, iter, iter_once, once, clone, next and teardown
\* came before, an iterator that has a cursor has a captured tail, and no
\* call to next has panicked on the unwrap of the tail.
C18_NextNeverPanics ==
    /\ ~panicked
    /\ \A i \in IterIds :
          (Live(i) /\ iters[i].cursor # None) => iters[i].tail # None

\* After a push and the teardown: a stopping iterator in mid-pass next to a
\* second iterator.
C18_Witness ==
    /\ ~alive /\ ~panicked /\ nalloc >= 2
    /\ \E i, j \in IterIds :
          /\ i # j /\ Live(i) /\ Live(j)
          /\ iters[i].stop /\ iters[i].cursor # None /\ hist[i].calls >= 1
          /\ iters[i].tail < nalloc
          /\ hist[j].calls >= 1

\* C19: when an iterator yields x and its following call yields y, y is the
\* node x.next pointed to when x was yielded, whatever was pushed between
\* the two calls: after yielding the tail, an iterator from iter() yields
\* head next, and a node pushed in between comes a revolution later.
C19_CursorReadAhead ==
    [][\A i \in IterIds :
          (Live(i) /\ Len(hist[i].out) >= 1
             /\ Len(hist'[i].out) = Len(hist[i].out) + 1) =>
              hist'[i].out[Len(hist'[i].out)] = hist[i].peek]_vars

\* The only node was yielded, a second node was pushed, and the following
\* call yielded the head again before the new node.
C19_Witness ==
    \E i \in IterIds :
        /\ Live(i) /\ ~iters[i].stop
        /\ Len(pushed) = 2 /\ hist[i].len0 = 1
        /\ hist[i].out = << 1, 1, 2 >>

====
